---- MODULE Spec2Model ----
(***************************************************************************)
(* Model of the job-orchestration services of custom-atomspace-builder:    *)
(*   app/services/hugegraph_service.py   HugeGraphService                  *)
(*   app/services/annotation_service.py  AnnotationService                 *)
(*                                                                         *)
(* Spec        concurrent runs of HugeGraphService.process_data            *)
(* SpecSchema  HugeGraphService._remove_id_property as a pure function     *)
(* SpecNotify  AnnotationService.notify_annotation_service                 *)
(***************************************************************************)
EXTENDS Naturals, Integers, Sequences, FiniteSets, TLC

\* ------------------------------------------------------------------ bounds
\* Number of job identifiers uuid4 may hand out (jobs started in one behaviour).
MaxJobs == 2
\* Longest properties / nullable_keys list of a schema descriptor.
MaxLen == 2
\* Number of notify_annotation_service calls in one behaviour.
MaxCalls == 2

\* ------------------------------------------------------------- job runner
VARIABLES
  pc,           \* per coroutine: position inside process_data
  job_id,       \* per coroutine: local job_id (line 31), 0 before the call
  writer_type,  \* per coroutine: argument writer_type
  tmpdir,       \* per coroutine: the TemporaryDirectory of line 34
  result,       \* per coroutine: CompletedProcess of the loader (line 50)
  exc,          \* per coroutine: exception in flight / raised to the caller
  ret,          \* per coroutine: the HugeGraphLoadResponse returned
  fs,           \* base_output_dir: path component -> directory
  used,         \* identifiers uuid4 has generated so far
  loaderWrote,  \* history: files the loader of this run wrote
  written,      \* history: files _save_job_metadata of this run wrote
  rmFailed,     \* history: the last rmtree of this run failed (and was swallowed)
  orig,         \* history: the exception as first raised inside the try body
  succeeded     \* history: job ids whose process_data returned a result

\* ------------------------------------------------------------ schema strip
VARIABLES
  s_pc,         \* position of the stripping run
  schema_data,  \* the argument of _remove_id_property
  schema_once,  \* its result
  schema_twice  \* the result of stripping the result again

\* ---------------------------------------------------------------- notifier
VARIABLES
  n_pc,         \* position inside notify_annotation_service
  service_url,  \* self.service_url ("" when not configured)
  n_job,        \* argument job_id
  n_writer,     \* argument writer_type
  payload,      \* the JSON body built at line 24
  posts,        \* POST requests sent by the current call
  response,     \* outcome of the POST
  n_exc,        \* exception raised to the caller
  calls         \* number of calls made so far

jobVars == <<pc, job_id, writer_type, tmpdir, result, exc, ret, fs, used,
             loaderWrote, written, rmFailed, orig, succeeded>>
schemaVars == <<s_pc, schema_data, schema_once, schema_twice>>
notifyVars == <<n_pc, service_url, n_job, n_writer, payload, posts, response,
                n_exc, calls>>
vars == <<jobVars, schemaVars, notifyVars>>

\* ======================================================= HugeGraphService
\* Concurrent callers of the global hugegraph_service instance.
Procs == {"c1", "c2"}
\* uuid4 values, named by the order in which they are generated.
JobIds == 1..MaxJobs
\* writer_type is a str: WriterType.METTA (the default) and WriterType.NEO4J.
WriterTypes == {"metta", "neo4j"}
\* What the external loader may do: exit code, stderr text, files written.
ReturnCodes == {0, 1}
Stderrs == {"", "disk full"}
LoaderFiles == {"nodes.out"}
MetadataFiles == {"schema.json", "job_metadata.json"}

NoExc == <<>>
NoResult == [returncode |-> -1, stderr |-> ""]
NoRet == <<>>
NoTmp == [exists |-> FALSE, files |-> {}]
AbsentDir == [exists |-> FALSE, files |-> {}, metadata |-> <<>>]

\* settings.neo4j_config: the connection block of the configuration surface.
neo4j_config == "NEO4J_CONFIG"
None == "None"

\* f"...{x}" and str(e): a message is the sequence of its parts.
Contains(msg, text) == \E i \in 1..Len(msg) : msg[i] = text

\* Plausible bug: the message names the failure but not the captured stderr.
Mut_loader_failed(r) == <<"HugeGraph loader failed">>

\* f"HugeGraph loader failed: {result.stderr}"
loader_failed(r) == <<"HugeGraph loader failed: ", r.stderr>>

no_output_files == <<"No output files generated">>

\* Plausible bug: every job writes under one fixed directory of the output root.
Mut_get_job_output_dir(id) == 1

\* os.path.join(self.base_output_dir, job_id): the path, named by its last component.
_get_job_output_dir(id) == id

\* os.makedirs(output_dir, exist_ok=True)
makedirs(d) == IF d.exists THEN d ELSE [exists |-> TRUE, files |-> {}, metadata |-> <<>>]

\* Outcomes of one shutil.rmtree of directory d: everything removed, or the
\* removal fails part-way and leaves the directory with some of its files.
RmOutcomes(d) ==
  {[ok |-> TRUE, left |-> {}]} \cup {[ok |-> FALSE, left |-> s] : s \in SUBSET d.files}

\* shutil.rmtree(path, ignore_errors): the directory afterwards, and the error raised.
rmtree(d, outcome, ignore_errors) ==
  IF outcome.ok
    THEN [dir |-> AbsentDir, exc |-> NoExc]
    ELSE [dir |-> [exists |-> TRUE, files |-> outcome.left,
                   metadata |-> IF "job_metadata.json" \in outcome.left
                                  THEN d.metadata ELSE <<>>],
          exc |-> IF ignore_errors THEN NoExc ELSE <<"OSError", "rmtree">>]

\* Plausible bug: rmtree without ignore_errors, so a failed deletion raises.
Mut_cleanup_raises(d, outcome) ==
  IF d.exists THEN rmtree(d, outcome, FALSE) ELSE [dir |-> d, exc |-> NoExc]

\* Plausible bug: the cleanup deletes nothing.
Mut_cleanup_nothing(d, outcome) == [dir |-> d, exc |-> NoExc]

_cleanup_failed_job(d, outcome) ==
  IF d.exists THEN rmtree(d, outcome, TRUE) ELSE [dir |-> d, exc |-> NoExc]

_get_output_files(d) == IF ~d.exists THEN {} ELSE d.files

\* The job_metadata dict of _save_job_metadata (created_at, a clock reading, left out).
Mut_job_metadata(id, wt, gt) ==
  [job_id |-> id, writer_type |-> wt, graph_type |-> gt, neo4j_config |-> neo4j_config]

job_metadata(id, wt, gt) ==
  [job_id |-> id, writer_type |-> wt, graph_type |-> gt,
   neo4j_config |-> IF wt = "neo4j" THEN neo4j_config ELSE None]

\* _save_job_metadata stopped after n of its two writes (n = 2: it completed).
_save_job_metadata(d, id, wt, gt, n) ==
  [exists |-> d.exists,
   files |-> d.files \cup (IF n >= 1 THEN {"schema.json"} ELSE {})
                     \cup (IF n >= 2 THEN {"job_metadata.json"} ELSE {}),
   metadata |-> IF n >= 2 THEN <<job_metadata(id, wt, gt)>> ELSE d.metadata]

\* Plausible bug: the scope guard removes the directory only on a normal exit.
Mut_TemporaryDirectory_exit(t, e) == IF e = NoExc THEN NoTmp ELSE t

\* tempfile.TemporaryDirectory.__exit__: the directory and its contents are removed.
TemporaryDirectory_exit(t, e) == NoTmp

Terminated(p) == pc[p] \in {"returned", "raised"}
OutDir(p) == fs[_get_job_output_dir(job_id[p])]

JobInit ==
  /\ pc = [p \in Procs |-> "idle"]
  /\ job_id = [p \in Procs |-> 0]
  /\ writer_type = [p \in Procs |-> "metta"]
  /\ tmpdir = [p \in Procs |-> NoTmp]
  /\ result = [p \in Procs |-> NoResult]
  /\ exc = [p \in Procs |-> NoExc]
  /\ ret = [p \in Procs |-> NoRet]
  /\ fs = [d \in JobIds |-> AbsentDir]
  /\ used = {}
  /\ loaderWrote = [p \in Procs |-> {}]
  /\ written = [p \in Procs |-> {}]
  /\ rmFailed = [p \in Procs |-> FALSE]
  /\ orig = [p \in Procs |-> NoExc]
  /\ succeeded = {}

\* An exception raised inside the with body: the scope exit runs next.
RaiseInWith(p, e) ==
  /\ exc' = [exc EXCEPT ![p] = e]
  /\ orig' = [orig EXCEPT ![p] = e]
  /\ pc' = [pc EXCEPT ![p] = "with_exit"]

\* str(uuid.uuid4()): an identifier no earlier call has got.
uuid4 == {Cardinality(used) + 1} \cap (JobIds \ used)

\* Lines 22-31: a call of process_data; job_id = str(uuid.uuid4()).
Call(p) ==
  /\ pc[p] \in {"idle", "returned", "raised"}
  /\ UNCHANGED <<schemaVars, notifyVars>>
  /\ \E id \in uuid4, wt \in WriterTypes :
       /\ job_id' = [job_id EXCEPT ![p] = id]
       /\ used' = used \cup {id}
       /\ writer_type' = [writer_type EXCEPT ![p] = wt]
  /\ pc' = [pc EXCEPT ![p] = "mkdtemp"]
  /\ tmpdir' = [tmpdir EXCEPT ![p] = NoTmp]
  /\ result' = [result EXCEPT ![p] = NoResult]
  /\ exc' = [exc EXCEPT ![p] = NoExc]
  /\ ret' = [ret EXCEPT ![p] = NoRet]
  /\ loaderWrote' = [loaderWrote EXCEPT ![p] = {}]
  /\ written' = [written EXCEPT ![p] = {}]
  /\ rmFailed' = [rmFailed EXCEPT ![p] = FALSE]
  /\ orig' = [orig EXCEPT ![p] = NoExc]
  /\ UNCHANGED <<fs, succeeded>>

\* Line 34: with tempfile.TemporaryDirectory() as tmpdir.
EnterWith(p) ==
  /\ pc[p] = "mkdtemp"
  /\ UNCHANGED <<schemaVars, notifyVars>>
  /\ \/ /\ tmpdir' = [tmpdir EXCEPT ![p] = [exists |-> TRUE, files |-> {}]]
        /\ pc' = [pc EXCEPT ![p] = "stage"]
        /\ UNCHANGED <<exc, orig>>
     \/ /\ exc' = [exc EXCEPT ![p] = <<"OSError", "mkdtemp">>]
        /\ orig' = [orig EXCEPT ![p] = <<"OSError", "mkdtemp">>]
        /\ pc' = [pc EXCEPT ![p] = "except"]
        /\ UNCHANGED tmpdir
  /\ UNCHANGED <<job_id, writer_type, result, ret, fs, used, loaderWrote,
                 written, rmFailed, succeeded>>

\* Lines 36-43: strip the schema, copy the input files, write the schema and
\* config files into tmpdir. Any of them may raise.
Stage(p) ==
  /\ pc[p] = "stage"
  /\ UNCHANGED <<schemaVars, notifyVars>>
  /\ \/ /\ tmpdir' = [tmpdir EXCEPT ![p].files = {"input", "schema.groovy", "struct.json"}]
        /\ pc' = [pc EXCEPT ![p] = "makedirs"]
        /\ UNCHANGED <<exc, orig>>
     \/ \E staged \in {{}, {"input"}, {"input", "schema.groovy"}} :
          /\ tmpdir' = [tmpdir EXCEPT ![p].files = staged]
          /\ RaiseInWith(p, <<"OSError", "stage">>)
  /\ UNCHANGED <<job_id, writer_type, result, ret, fs, used, loaderWrote,
                 written, rmFailed, succeeded>>

\* Lines 46-47: output_dir = self._get_job_output_dir(job_id); os.makedirs.
MakeOutputDir(p) ==
  /\ pc[p] = "makedirs"
  /\ UNCHANGED <<schemaVars, notifyVars>>
  /\ \/ /\ fs' = [fs EXCEPT ![_get_job_output_dir(job_id[p])] = makedirs(@)]
        /\ pc' = [pc EXCEPT ![p] = "loader"]
        /\ UNCHANGED <<exc, orig>>
     \/ /\ RaiseInWith(p, <<"OSError", "makedirs">>)
        /\ UNCHANGED fs
  /\ UNCHANGED <<job_id, writer_type, tmpdir, result, ret, used, loaderWrote,
                 written, rmFailed, succeeded>>

\* Lines 50-51 and 123-149: the external loader runs to its end and writes
\* what it writes into output_dir, or subprocess.run itself raises.
RunLoader(p) ==
  /\ pc[p] = "loader"
  /\ UNCHANGED <<schemaVars, notifyVars>>
  /\ \/ \E rc \in ReturnCodes, err \in Stderrs, out \in SUBSET LoaderFiles :
          /\ result' = [result EXCEPT ![p] = [returncode |-> rc, stderr |-> err]]
          /\ fs' = [fs EXCEPT ![_get_job_output_dir(job_id[p])].files =
                      IF OutDir(p).exists THEN @ \cup out ELSE @]
          /\ loaderWrote' = [loaderWrote EXCEPT ![p] = out]
          /\ pc' = [pc EXCEPT ![p] = "check_rc"]
          /\ UNCHANGED <<exc, orig>>
     \/ /\ RaiseInWith(p, <<"OSError", "subprocess">>)
        /\ UNCHANGED <<result, fs, loaderWrote>>
  /\ UNCHANGED <<job_id, writer_type, tmpdir, ret, used, written, rmFailed,
                 succeeded>>

\* A call of self._cleanup_failed_job(output_dir) by p with the given rmtree
\* outcome; error is what is in flight afterwards when the cleanup raises nothing.
Cleanup(p, outcome, error) ==
  LET path == _get_job_output_dir(job_id[p])
      c == _cleanup_failed_job(fs[path], outcome)
  IN /\ fs' = [fs EXCEPT ![path] = c.dir]
     /\ rmFailed' = [rmFailed EXCEPT ![p] = IF fs[path].exists THEN ~outcome.ok ELSE @]
     /\ exc' = [exc EXCEPT ![p] = IF c.exc # NoExc THEN c.exc ELSE error]

\* Lines 53-55: the exit-code policy.
CheckReturnCode(p) ==
  /\ pc[p] = "check_rc"
  /\ UNCHANGED <<schemaVars, notifyVars>>
  /\ IF result[p].returncode # 0
       THEN LET e == loader_failed(result[p])
            IN /\ \E outcome \in RmOutcomes(OutDir(p)) : Cleanup(p, outcome, e)
               /\ orig' = [orig EXCEPT ![p] = e]
               /\ pc' = [pc EXCEPT ![p] = "with_exit"]
       ELSE /\ pc' = [pc EXCEPT ![p] = "save_metadata"]
            /\ UNCHANGED <<fs, rmFailed, exc, orig>>
  /\ UNCHANGED <<job_id, writer_type, tmpdir, result, ret, used, loaderWrote,
                 written, succeeded>>

\* Lines 58 and 151-177: schema.json, then job_metadata.json; either write may raise.
SaveJobMetadata(p) ==
  /\ pc[p] = "save_metadata"
  /\ UNCHANGED <<schemaVars, notifyVars>>
  /\ \E n \in 0..2 :
       /\ OutDir(p).exists \/ n = 0
       /\ fs' = [fs EXCEPT ![_get_job_output_dir(job_id[p])] =
                   _save_job_metadata(@, job_id[p], writer_type[p], "directed", n)]
       /\ written' = [written EXCEPT ![p] =
                        IF n = 0 THEN {} ELSE IF n = 1 THEN {"schema.json"} ELSE MetadataFiles]
       /\ IF n = 2
            THEN /\ pc' = [pc EXCEPT ![p] = "output_files"]
                 /\ UNCHANGED <<exc, orig>>
            ELSE RaiseInWith(p, <<"OSError", "save_metadata">>)
  /\ UNCHANGED <<job_id, writer_type, tmpdir, result, ret, used, loaderWrote,
                 rmFailed, succeeded>>

\* Lines 60-73: list the output directory; the empty-output policy; the result.
CheckOutputFiles(p) ==
  /\ pc[p] = "output_files"
  /\ UNCHANGED <<schemaVars, notifyVars>>
  /\ LET output_files == _get_output_files(OutDir(p))
     IN IF output_files = {}
          THEN LET e == no_output_files
               IN /\ \E outcome \in RmOutcomes(OutDir(p)) : Cleanup(p, outcome, e)
                  /\ orig' = [orig EXCEPT ![p] = e]
                  /\ UNCHANGED ret
          ELSE /\ ret' = [ret EXCEPT ![p] =
                            <<[job_id |-> job_id[p], status |-> "success",
                               output_files |-> output_files,
                               output_dir |-> _get_job_output_dir(job_id[p]),
                               writer_type |-> writer_type[p]]>>]
               /\ UNCHANGED <<fs, rmFailed, exc, orig>>
  /\ pc' = [pc EXCEPT ![p] = "with_exit"]
  /\ UNCHANGED <<job_id, writer_type, tmpdir, result, used, loaderWrote,
                 written, succeeded>>

\* Line 34, leaving the with block: by return, or by an exception on its way
\* to the handler of line 75.
WithExit(p) ==
  /\ pc[p] = "with_exit"
  /\ UNCHANGED <<schemaVars, notifyVars>>
  /\ tmpdir' = [tmpdir EXCEPT ![p] = TemporaryDirectory_exit(@, exc[p])]
  /\ IF exc[p] = NoExc
       THEN /\ pc' = [pc EXCEPT ![p] = "returned"]
            /\ succeeded' = succeeded \cup {job_id[p]}
       ELSE /\ pc' = [pc EXCEPT ![p] = "except"]
            /\ UNCHANGED succeeded
  /\ UNCHANGED <<job_id, writer_type, result, exc, ret, fs, used, loaderWrote,
                 written, rmFailed, orig>>

\* Lines 75-79: except Exception as e: cleanup, raise e.
ExceptHandler(p) ==
  /\ pc[p] = "except"
  /\ UNCHANGED <<schemaVars, notifyVars>>
  /\ \E outcome \in RmOutcomes(OutDir(p)) : Cleanup(p, outcome, exc[p])
  /\ pc' = [pc EXCEPT ![p] = "raised"]
  /\ UNCHANGED <<job_id, writer_type, tmpdir, result, ret, used, loaderWrote,
                 written, orig, succeeded>>

\* The other two services stay as constructed while jobs run.
SchemaOff ==
  /\ s_pc = "off"
  /\ schema_data = [vertex_labels |-> <<>>, edge_labels |-> <<>>]
  /\ schema_once = [vertex_labels |-> <<>>, edge_labels |-> <<>>]
  /\ schema_twice = [vertex_labels |-> <<>>, edge_labels |-> <<>>]

NotifyOff ==
  /\ n_pc = "off"
  /\ service_url = ""
  /\ n_job = 0
  /\ n_writer = ""
  /\ payload = <<>>
  /\ posts = 0
  /\ response = [kind |-> "none", status_code |-> 0]
  /\ n_exc = NoExc
  /\ calls = 0

\* No process_data call is made while the other services are exercised.
JobOff == JobInit

Init == JobInit /\ SchemaOff /\ NotifyOff
Next ==
  \E p \in Procs :
    \/ Call(p)
    \/ EnterWith(p)
    \/ Stage(p)
    \/ MakeOutputDir(p)
    \/ RunLoader(p)
    \/ CheckReturnCode(p)
    \/ SaveJobMetadata(p)
    \/ CheckOutputFiles(p)
    \/ WithExit(p)
    \/ ExceptHandler(p)
Spec == Init /\ [][Next]_vars

\* ------------------------------------------------ properties of process_data
Raised(p) == pc[p] = "raised"
Returned(p) == pc[p] = "returned"
LoaderFailed(p) == result[p] # NoResult /\ result[p].returncode # 0
\* The output directory in its final form: the two persisted documents and
\* everything the loader wrote.
Complete(p) ==
  /\ OutDir(p).exists
  /\ (MetadataFiles \cup loaderWrote[p]) \subseteq OutDir(p).files

\* C1 as stated: when process_data has terminated, the job's output directory
\* does not exist if it raised, and exists in its final form if it returned.
C1_Original ==
  \A p \in Procs :
    /\ Raised(p) => ~OutDir(p).exists
    /\ Returned(p) => Complete(p)

\* C1, amended: when process_data has terminated, the job's output directory
\* exists in its final form if it returned, and does not exist if it raised,
\* unless the last best-effort deletion of it failed and was swallowed.
C1_Amended ==
  \A p \in Procs :
    /\ (Raised(p) /\ ~rmFailed[p]) => ~OutDir(p).exists
    /\ Returned(p) => Complete(p)

\* Metadata persistence failed after schema.json was written, and the
\* half-written directory is gone.
C1_Witness ==
  \E p \in Procs :
    /\ Raised(p)
    /\ written[p] = {"schema.json"}
    /\ loaderWrote[p] # {}
    /\ ~OutDir(p).exists

\* C2 as stated: after a non-zero loader exit process_data raises an error
\* containing the captured stderr, the output directory does not exist, and
\* neither schema.json nor job_metadata.json was written.
C2_Original ==
  \A p \in Procs :
    (Raised(p) /\ LoaderFailed(p)) =>
      /\ Contains(exc[p], result[p].stderr)
      /\ ~OutDir(p).exists
      /\ written[p] = {}

\* C2, amended: after a non-zero loader exit process_data raises an error
\* containing the captured stderr, neither schema.json nor job_metadata.json
\* was written, and the output directory does not exist unless the last
\* best-effort deletion of it failed.
C2_Amended ==
  \A p \in Procs :
    (Raised(p) /\ LoaderFailed(p)) =>
      /\ Contains(exc[p], result[p].stderr)
      /\ ~rmFailed[p] => ~OutDir(p).exists
      /\ written[p] = {}

\* The loader wrote a file, exited 1 with "disk full", and the error is raised.
C2_Witness ==
  \E p \in Procs :
    /\ Raised(p)
    /\ result[p] = [returncode |-> 1, stderr |-> "disk full"]
    /\ loaderWrote[p] # {}
    /\ exc[p] = <<"HugeGraph loader failed: ", "disk full">>
    /\ ~OutDir(p).exists

\* C3 as stated: a run whose loader exited zero and wrote no file does not
\* return a success result.
C3_Claim ==
  \A p \in Procs :
    (result[p].returncode = 0 /\ loaderWrote[p] = {}) => ~Returned(p)

\* C4: on a successful run the persisted job_metadata.json has a non-null
\* neo4j_config exactly when the writer type argument is the NEO4J writer.
C4_MetadataConfig ==
  \A p \in Procs :
    Returned(p) =>
      /\ Len(OutDir(p).metadata) = 1
      /\ (OutDir(p).metadata[1].neo4j_config # None) <=> (writer_type[p] = "neo4j")

\* Both writer types have completed a job, one with and one without the block.
C4_Witness ==
  \E p, q \in Procs :
    /\ Returned(p) /\ writer_type[p] = "neo4j"
    /\ OutDir(p).metadata[1].neo4j_config = neo4j_config
    /\ Returned(q) /\ writer_type[q] = "metta"
    /\ OutDir(q).metadata[1].neo4j_config = None

\* C5: once process_data has terminated, by return or by raising, its
\* temporary working directory does not exist.
C5_TmpGone == \A p \in Procs : Terminated(p) => ~tmpdir[p].exists

\* One run returned and one raised from inside the with block.
C5_Witness ==
  \E p, q \in Procs :
    /\ Returned(p) /\ ~tmpdir[p].exists
    /\ Raised(q) /\ orig[q] = <<"OSError", "save_metadata">> /\ ~tmpdir[q].exists

\* C9: every step changes only the output directory named by the identifier of
\* the job that takes the step, and never the directory of a job that has
\* returned a result.
C9_Isolation ==
  [][\A d \in JobIds :
       fs'[d] # fs[d] =>
         /\ d \notin succeeded
         /\ \E p \in Procs : pc'[p] # pc[p] /\ job_id[p] = d]_vars

\* One job failed and had its directory removed while the other job's complete
\* output is in place.
C9_Witness ==
  \E p, q \in Procs :
    /\ Raised(p) /\ LoaderFailed(p) /\ loaderWrote[p] # {} /\ ~OutDir(p).exists
    /\ Returned(q) /\ job_id[q] # job_id[p] /\ Complete(q)

\* C10: the error process_data raises is the error first raised while
\* processing the job, whatever the cleanup did; after a loader failure it
\* carries the captured stderr.
C10_OriginalError ==
  \A p \in Procs :
    Raised(p) =>
      /\ exc[p] = orig[p]
      /\ LoaderFailed(p) => exc[p] = <<"HugeGraph loader failed: ", result[p].stderr>>

\* A loader failure whose cleanup could not delete the directory, and a
\* failure before the directory was made.
C10_Witness ==
  \E p, q \in Procs :
    /\ Raised(p) /\ LoaderFailed(p) /\ rmFailed[p] /\ OutDir(p).exists
    /\ Raised(q) /\ orig[q] = <<"OSError", "stage">> /\ ~OutDir(q).exists

\* ============================================ HugeGraphService._remove_id_property
PropNames == {"id", "name"}
\* Python lists of property names, at most MaxLen long (duplicates included).
Lists == UNION {[1..n -> PropNames] : n \in 0..MaxLen}
\* A vertex or edge descriptor: a dict whose "properties" and "nullable_keys"
\* keys may each be missing.
Descriptors ==
  {[name |-> "Person"]}
    \cup {[name |-> "Person", properties |-> ps] : ps \in Lists}
    \cup {[name |-> "Person", nullable_keys |-> ns] : ns \in Lists}
    \cup {[name |-> "Person", properties |-> ps, nullable_keys |-> ns] :
            ps \in Lists, ns \in Lists}
\* Schemas with at most one vertex label and at most one edge label.
Schemas ==
  {[vertex_labels |-> vs, edge_labels |-> es] :
     vs \in {<<>>} \cup {<<d>> : d \in Descriptors},
     es \in {<<>>} \cup {<<d>> : d \in Descriptors}}

\* x in list
In(x, list) == \E i \in 1..Len(list) : list[i] = x

\* list.remove(x): the first occurrence of x is removed.
list_remove(list, x) ==
  LET i == CHOOSE k \in 1..Len(list) :
             list[k] = x /\ \A j \in 1..(k - 1) : list[j] # x
  IN SubSeq(list, 1, i - 1) \o SubSeq(list, i + 1, Len(list))

\* dict.get(key, [])
get(d, key) == IF key \in DOMAIN d THEN d[key] ELSE <<>>

\* Plausible bug: only the properties list is stripped.
Mut_strip(d) ==
  IF In("id", get(d, "properties"))
    THEN [d EXCEPT !.properties = list_remove(@, "id")]
    ELSE d

\* The body of either loop of _remove_id_property, on one descriptor.
strip(d) ==
  LET d1 == IF In("id", get(d, "properties"))
              THEN [d EXCEPT !.properties = list_remove(@, "id")]
              ELSE d
  IN IF In("id", get(d1, "nullable_keys"))
       THEN [d1 EXCEPT !.nullable_keys = list_remove(@, "id")]
       ELSE d1

_remove_id_property(schema) ==
  [vertex_labels |-> [i \in 1..Len(schema.vertex_labels) |-> strip(schema.vertex_labels[i])],
   edge_labels |-> [i \in 1..Len(schema.edge_labels) |-> strip(schema.edge_labels[i])]]

SchemaInit ==
  /\ s_pc = "input"
  /\ schema_data \in Schemas
  /\ schema_once = [vertex_labels |-> <<>>, edge_labels |-> <<>>]
  /\ schema_twice = [vertex_labels |-> <<>>, edge_labels |-> <<>>]

\* schema_data = self._remove_id_property(schema_data)
StripOnce ==
  /\ s_pc = "input"
  /\ schema_once' = _remove_id_property(schema_data)
  /\ s_pc' = "once"
  /\ UNCHANGED <<schema_data, schema_twice, jobVars, notifyVars>>

\* The same call on the schema it returned.
StripTwice ==
  /\ s_pc = "once"
  /\ schema_twice' = _remove_id_property(schema_once)
  /\ s_pc' = "twice"
  /\ UNCHANGED <<schema_data, schema_once, jobVars, notifyVars>>

NextSchema == StripOnce \/ StripTwice
InitSchema == SchemaInit /\ JobOff /\ NotifyOff
SpecSchema == InitSchema /\ [][NextSchema]_vars

\* ------------------------------------------ property of _remove_id_property
Unique(list) == \A i, j \in 1..Len(list) : i # j => list[i] # list[j]
Labels(schema) ==
  {schema.vertex_labels[i] : i \in 1..Len(schema.vertex_labels)}
    \cup {schema.edge_labels[i] : i \in 1..Len(schema.edge_labels)}
UniqueNames(schema) ==
  \A d \in Labels(schema) : Unique(get(d, "properties")) /\ Unique(get(d, "nullable_keys"))
MentionsId(schema) ==
  \E d \in Labels(schema) : In("id", get(d, "properties")) \/ In("id", get(d, "nullable_keys"))
\* The list with every entry "id" left out, the rest in order.
WithoutId(list) == SelectSeq(list, LAMBDA x : x # "id")
\* Same keys as d, the two lists (where present) without "id".
Stripped(d) ==
  [k \in DOMAIN d |->
     IF k \in {"properties", "nullable_keys"} THEN WithoutId(d[k]) ELSE d[k]]
StrippedAll(ds) == [i \in 1..Len(ds) |-> Stripped(ds[i])]

ServiceUrls == {"", "http://annotation/notify"}
\* What one client.post may come to: a response with a status code, a
\* timeout (httpx.TimeoutException), or another transport failure.
StatusCodes == {200, 201, 404, 500}
NoResponse == [kind |-> "none", status_code |-> 0]
Responses ==
  {[kind |-> "response", status_code |-> c] : c \in StatusCodes}
    \cup {[kind |-> "timeout", status_code |-> 0], [kind |-> "error", status_code |-> 0]}

\* Plausible bug: the unreachable lines 19-20 run, and a missing URL raises.
Mut_not_configured == [pc |-> "raised", exc |-> <<"Annotation service URL is not set">>]

\* Lines 17-18: if not self.service_url: return None
not_configured == [pc |-> "returned", exc |-> NoExc]

\* Lines 21-22: "neo4j" is sent as "cypher".
translate(wt) == IF wt = "neo4j" THEN "cypher" ELSE wt

\* Plausible bug: every 2xx status counts as success.
Mut_after_post(r) ==
  IF r.kind = "timeout"
    THEN [pc |-> "raised", exc |-> <<"Timeout connecting to annotation service">>]
  ELSE IF r.kind = "error"
    THEN [pc |-> "raised", exc |-> <<"Failed to connect to annotation service: ", "transport">>]
  ELSE IF r.status_code >= 300
    THEN [pc |-> "raised",
          exc |-> <<"Failed to connect to annotation service: ",
                    "Annotation service returned ", r.status_code>>]
  ELSE [pc |-> "returned", exc |-> NoExc]

\* Lines 34-49: what follows the POST. The RuntimeError of line 37 is raised
\* inside the try block, so the handler of line 44 catches and re-wraps it.
after_post(r) ==
  IF r.kind = "timeout"
    THEN [pc |-> "raised", exc |-> <<"Timeout connecting to annotation service">>]
  ELSE IF r.kind = "error"
    THEN [pc |-> "raised", exc |-> <<"Failed to connect to annotation service: ", "transport">>]
  ELSE IF r.status_code # 200
    THEN [pc |-> "raised",
          exc |-> <<"Failed to connect to annotation service: ",
                    "Annotation service returned ", r.status_code>>]
  ELSE [pc |-> "returned", exc |-> NoExc]

NotifyInit ==
  /\ n_pc = "idle"
  /\ service_url \in ServiceUrls
  /\ n_job = 0
  /\ n_writer = ""
  /\ payload = <<>>
  /\ posts = 0
  /\ response = NoResponse
  /\ n_exc = NoExc
  /\ calls = 0

\* Line 15: a call with a job id and a writer type.
NotifyCall ==
  /\ n_pc \in {"idle", "returned", "raised"}
  /\ calls < MaxCalls
  /\ calls' = calls + 1
  /\ \E id \in JobIds, wt \in WriterTypes :
       /\ n_job' = id
       /\ n_writer' = wt
  /\ payload' = <<>>
  /\ posts' = 0
  /\ response' = NoResponse
  /\ n_exc' = NoExc
  /\ n_pc' = "entered"
  /\ UNCHANGED <<service_url, jobVars, schemaVars>>

\* Lines 17-24: the endpoint check, the alias, the payload.
Prepare ==
  /\ n_pc = "entered"
  /\ IF service_url = ""
       THEN /\ n_pc' = not_configured.pc
            /\ n_exc' = not_configured.exc
            /\ UNCHANGED <<n_writer, payload>>
       ELSE /\ n_writer' = translate(n_writer)
            /\ payload' = <<[folder_id |-> n_job, type |-> translate(n_writer)]>>
            /\ n_pc' = "post"
            /\ UNCHANGED n_exc
  /\ UNCHANGED <<service_url, n_job, posts, response, calls, jobVars, schemaVars>>

\* Lines 27-32: await client.post(self.service_url, json=payload, timeout=...).
Post ==
  /\ n_pc = "post"
  /\ posts' = posts + 1
  /\ \E r \in Responses : response' = r
  /\ n_pc' = "posted"
  /\ UNCHANGED <<service_url, n_job, n_writer, payload, n_exc, calls, jobVars, schemaVars>>

\* Lines 34-49: the status check and the two except clauses.
AfterPost ==
  /\ n_pc = "posted"
  /\ n_pc' = after_post(response).pc
  /\ n_exc' = after_post(response).exc
  /\ UNCHANGED <<service_url, n_job, n_writer, payload, posts, response, calls,
                 jobVars, schemaVars>>

NextNotify == NotifyCall \/ Prepare \/ Post \/ AfterPost
InitNotify == NotifyInit /\ JobOff /\ SchemaOff
SpecNotify == InitNotify /\ [][NextNotify]_vars

\* ------------------------------------ properties of notify_annotation_service
NotifyDone == n_pc \in {"returned", "raised"}

\* C7: with an endpoint configured a finished call has sent exactly one POST;
\* it returned normally only if the response had status 200 and otherwise
\* (another status, a timeout, a transport failure) raised an error.
C7_SinglePost ==
  (NotifyDone /\ service_url # "") =>
    /\ posts = 1
    /\ n_pc = "returned" <=> (response.kind = "response" /\ response.status_code = 200)
    /\ n_pc = "raised" => n_exc # NoExc
    /\ n_pc = "returned" => n_exc = NoExc

\* A call that got status 201 raised after its single POST.
C7_Witness ==
  /\ n_pc = "raised"
  /\ service_url # ""
  /\ response = [kind |-> "response", status_code |-> 201]
  /\ posts = 1
  /\ calls = 2

\* C8: with no endpoint configured a finished call has returned, raised
\* nothing and sent no request, whatever its job id and writer type.
C8_NoEndpoint ==
  (NotifyDone /\ service_url = "") =>
    /\ n_pc = "returned"
    /\ n_exc = NoExc
    /\ posts = 0
    /\ response = NoResponse

\* A call for the neo4j writer finished without an endpoint.
C8_Witness ==
  /\ NotifyDone
  /\ service_url = ""
  /\ n_writer = "neo4j"
  /\ n_pc = "returned"
  /\ posts = 0

====
